---- MODULE Spec2Model ----
(***************************************************************************)
(* LineResistanceCrossbar (src/memristor/crossbar/model.py).               *)
(*                                                                         *)
(* Units.  Conductances are integers in units of 1e-15 S (the value the    *)
(* source gives a floating terminal), voltages are integers in units of    *)
(* one inference step, currents are their products.  Resistances are       *)
(* integers r with conductance 48 \div r, and the inputs use divisors of   *)
(* 48 only, so 1/r is exact.                                               *)
(*                                                                         *)
(* A Python exception is the string of its class; "none" is a normal       *)
(* return.                                                                 *)
(***************************************************************************)
EXTENDS Integers, Sequences, FiniteSets, TLC

VARIABLES xbar, call

vars == <<xbar, call>>

\* ------------------------------------------------------------------ bounds
MaxN == 3
MaxM == 3
MaxIter == 2
NumPatterns == 2

\* g_s_wl_out, g_s_bl_in: torch.ones(..) * 1e-15, in units of 1e-15 S
Floating == 1

\* ----------------------------------------------------------------- tensors
\* A torch tensor: its shape and its elements in row-major order.
Tensor(shape, data) == [kind |-> "Tensor", shape |-> shape, data |-> data]

\* Python's None, and a local that was never bound
None == [kind |-> "None", shape |-> <<>>, data |-> <<>>]

Unbound == [kind |-> "unbound", shape |-> <<>>, data |-> <<>>]

Scalar(x) == Tensor(<<>>, <<x>>)

Vector(len, F(_)) == Tensor(<<len>>, [k \in 1..len |-> F(k - 1)])

Matrix(r, c, F(_, _)) ==
    Tensor(<<r, c>>, [k \in 1..(r * c) |-> F((k - 1) \div c, (k - 1) % c)])

Dim(t) == Len(t.shape)

Rows(t) == t.shape[1]

Cols(t) == t.shape[2]

\* t[i] of a 1-D tensor and t[i, j] of a 2-D tensor, 0-based, in range
At1(t, i) == t.data[i + 1]

At2(t, i, j) == t.data[i * Cols(t) + j + 1]

\* torch.t: 0-D and 1-D tensors are returned as they are
t(W) == IF Dim(W) = 2
        THEN Matrix(Cols(W), Rows(W), LAMBDA i, j : At2(W, j, i))
        ELSE W

\* Tensor.squeeze(): drops every dimension of size 1
squeeze(x) == Tensor(SelectSeq(x.shape, LAMBDA d : d # 1), x.data)

RECURSIVE SumSeq(_)
SumSeq(s) == IF s = <<>> THEN 0 ELSE s[1] + SumSeq(Tail(s))

\* F(0) + ... + F(k - 1)
SumTo(k, F(_)) == SumSeq([i \in 1..k |-> F(i - 1)])

\* torch.matmul(a, v) for a 1-D v
matmul(a, v) ==
    CASE Dim(a) = 2 ->
           IF Cols(a) # v.shape[1]
           THEN [err |-> "RuntimeError: size mismatch", val |-> Unbound]
           ELSE [err |-> "none",
                 val |-> Vector(Rows(a), LAMBDA i :
                           SumTo(Cols(a), LAMBDA j : At2(a, i, j) * At1(v, j)))]
      [] Dim(a) = 1 ->
           IF a.shape[1] # v.shape[1]
           THEN [err |-> "RuntimeError: size mismatch", val |-> Unbound]
           ELSE [err |-> "none",
                 val |-> Scalar(SumTo(a.shape[1], LAMBDA j : At1(a, j) * At1(v, j)))]
      [] OTHER -> [err |-> "RuntimeError: 0-D argument", val |-> Unbound]

\* ----------------------------------------------------------------- devices
Supported == {"StaticMemristor", "DynamicMemristor"}

Models == Supported \cup {"OtherMemristor"}

\* StaticMemristor(g_0) / DynamicMemristor(g_0) followed by calibrate(..)
calibrate(model, g_0) ==
    [model |-> model, g_0 |-> g_0,
     g_linfit |-> IF model = "StaticMemristor" THEN g_0 ELSE g_0 + 1]

\* memristor.inference(v): the current at voltage v
inference(dev, v) ==
    dev.g_linfit * v + (IF dev.model = "StaticMemristor" THEN 1 ELSE 2) * v * v * v

initialize_memristor(memristor_model, memristor_params, g_0) ==
    IF memristor_model \in Supported
    THEN [err |-> "none", val |-> calibrate(memristor_model, g_0)]
    ELSE [err |-> "Exception: Invalid memristor model",
          val |-> calibrate(memristor_model, g_0)]

\* ---------------------------------------------------------------- crossbar
NoObject ==
    [constructed |-> FALSE, memristor_model |-> "", memristors |-> <<>>,
     ideal_w |-> Unbound, n |-> 0, m |-> 0, fitted_w |-> Unbound,
     cache |-> [M_inv |-> Unbound],
     g_wl |-> 0, g_bl |-> 0, r_in |-> 0, r_out |-> 0,
     g_s_wl_in |-> Unbound, g_s_wl_out |-> Unbound,
     g_s_bl_in |-> Unbound, g_s_bl_out |-> Unbound,
     v_bl_in |-> Unbound, v_bl_out |-> Unbound, v_wl_out |-> Unbound]

\* the record of the last call: its arguments, how it ended, and the locals
\* of solve_v when it was left
NoCall ==
    [op |-> "", model |-> "", v |-> Unbound, iter |-> 0, W |-> Unbound,
     err |-> "none", at |-> "", out |-> Unbound,
     A |-> Unbound, B |-> Unbound, C |-> Unbound, D |-> Unbound, E |-> Unbound,
     cvalue |-> Unbound, solves |-> 0, inversions |-> 0, overwrites |-> 0,
     V_crossbar |-> Unbound, W_next |-> Unbound]

\* 1 / r
Recip(r) == 48 \div r

\* LineResistanceCrossbar.__init__: the object it builds
NewCrossbar(memristor_model, memristor_params, ideal_w, crossbar_params) ==
    LET n == Rows(ideal_w)
        m == Cols(ideal_w)
        memristors ==
            [i \in 0..(n - 1) |-> [j \in 0..(m - 1) |->
                initialize_memristor(memristor_model, memristor_params,
                                     At2(ideal_w, i, j)).val]]
        nested == IF n = 0
                  THEN Tensor(<<0>>, <<>>)
                  ELSE Matrix(n, m, LAMBDA i, j : memristors[i][j].g_linfit)
    IN  [constructed |-> TRUE,
         memristor_model |-> memristor_model,
         memristors |-> memristors,
         ideal_w |-> ideal_w,
         n |-> n, m |-> m,
         fitted_w |-> squeeze(nested),
         cache |-> [M_inv |-> Unbound],
         g_wl |-> Recip(crossbar_params.r_wl),
         g_bl |-> Recip(crossbar_params.r_bl),
         r_in |-> crossbar_params.r_in,
         r_out |-> crossbar_params.r_out,
         g_s_wl_in |-> Vector(m, LAMBDA i : Recip(crossbar_params.r_in)),
         g_s_wl_out |-> Vector(m, LAMBDA i : Floating),
         g_s_bl_in |-> Vector(n, LAMBDA i : Floating),
         g_s_bl_out |-> Vector(n, LAMBDA i : Recip(crossbar_params.r_out)),
         v_bl_in |-> Vector(n, LAMBDA i : 0),
         v_bl_out |-> Vector(n, LAMBDA i : 0),
         v_wl_out |-> Vector(m, LAMBDA i : 0)]

\* --------------------------------------------------- equivalent circuit
\* the exception of the first step that raises, errs[i] being the outcome of
\* step i
FirstErr(errs) ==
    LET bad == {i \in DOMAIN errs : errs[i] # "none"}
    IN  IF bad = {} THEN "none"
        ELSE errs[CHOOSE i \in bad : \A i2 \in bad : i <= i2]

\* what a function hands back: its value, or the exception it raised
Returned(err, val) == [err |-> err, val |-> IF err = "none" THEN val ELSE Unbound]

\* torch.block_diag of k square blocks of size s, Block(i, a, b) being
\* element (a, b) of block i
block_diag(k, s, Block(_, _, _)) ==
    Matrix(k * s, k * s, LAMBDA r, c :
        IF r \div s = c \div s THEN Block(r \div s, r % s, c % s) ELSE 0)

\* the number of columns of a 2-D tensor, 0 for any other
Width(x) == IF Dim(x) = 2 THEN Cols(x) ELSE 0

\* makea(i) of make_A: the exception it raises; its terms are evaluated
\* left to right
makea_err(self, W_t, i) ==
    CASE Dim(W_t) # 2 -> "IndexError: too many indices"        \* W_t[i, :]
      [] i >= Rows(W_t) -> "IndexError: index out of range"
      [] self.n < 2 -> "RuntimeError: negative dimension"      \* torch.ones(n - 2)
      [] Width(W_t) # self.n /\ Width(W_t) # 1 -> "RuntimeError: size mismatch"
                                         \* Width x Width + n x n
      [] OTHER -> "none"

\* makea(i) of make_A: element (a, b) of the n x n block it returns
makea(self, W_t, i, a, b) ==
      (IF Width(W_t) = 1 THEN At2(W_t, i, 0)            \* 1 x 1 is broadcast
       ELSE IF a = b THEN At2(W_t, i, a) ELSE 0)
    + (IF a # b THEN 0
       ELSE IF a = 0 \/ a = self.n - 1 THEN self.g_wl ELSE self.g_wl * 2)
    + (IF b = a + 1 THEN self.g_wl * (-1) ELSE 0)
    + (IF b = a - 1 THEN self.g_wl * (-1) ELSE 0)
    + (IF a # b THEN 0
       ELSE IF a = 0 THEN At1(self.g_s_wl_in, i)
       ELSE IF a = self.n - 1 THEN At1(self.g_s_wl_out, i) ELSE 0)

make_A_blocks(self, W_t) ==
    Returned(FirstErr([i \in 0..(self.m - 1) |-> makea_err(self, W_t, i)]),
             block_diag(self.m, self.n, LAMBDA i, a, b : makea(self, W_t, i, a, b)))

make_A(self, W) == make_A_blocks(self, t(W))

make_B_blocks(self, W_t) ==
    Returned(FirstErr([i \in 0..(self.m - 1) |->
                 CASE Dim(W_t) # 2 -> "IndexError: too many indices"  \* W_t[i, :]
                   [] i >= Rows(W_t) -> "IndexError: index out of range"
                   [] OTHER -> "none"]),
             block_diag(self.m, Width(W_t), LAMBDA i, a, b :
                 IF a = b THEN -At2(W_t, i, a) ELSE 0))

make_B(self, W) == make_B_blocks(self, t(W))

\* makec(j) of make_C: the exception it raises
makec_err(self, W_t, j) ==
    CASE Dim(W_t) # 2 -> "IndexError: too many indices"        \* W_t[:, j]
      [] j >= Cols(W_t) -> "IndexError: index out of range"
      [] Rows(W_t) # self.m /\ Rows(W_t) # 1 -> "RuntimeError: size mismatch"
                                         \* index_put of Rows(W_t) values
      [] OTHER -> "none"

\* the matrix line 159 concatenates: makec(j) puts W_t[r, j], or the single
\* W_t[0, j] broadcast, at row r and column r * n + j
make_C_cat(self, W_t) ==
    Matrix(self.n * self.m, self.m * self.n, LAMBDA r, c :
        IF c = (r % self.m) * self.n + (r \div self.m)
        THEN At2(W_t, IF Rows(W_t) = 1 THEN 0 ELSE r % self.m, r \div self.m)
        ELSE 0)

\* val is what the caller receives: the function has no return statement, so
\* it is None; cvalue is the matrix line 159 builds and drops
make_C_result(err, cat) ==
    [err |-> err,
     val |-> IF err = "none" THEN None ELSE Unbound,
     cvalue |-> IF err = "none" THEN cat ELSE Unbound]

make_C_blocks(self, W_t) ==
    make_C_result(
        FirstErr([j \in 0..self.n |->
            IF j < self.n THEN makec_err(self, W_t, j)
            ELSE IF self.n = 0 THEN "RuntimeError: empty list"  \* torch.cat([])
            ELSE "none"]),
        make_C_cat(self, W_t))

make_C(self, W) == make_C_blocks(self, t(W))

\* the assignments d[r, c] = x of maked(j), in the order the code makes them
maked_writes(self, W_t, j) ==
    LET m == self.m
        n == self.n
    IN  [k \in 1..(3 * m + 1) |->
            CASE k = 1 ->
                   [r |-> 0, c |-> j,
                    x |-> (-At1(self.g_s_bl_in, j)) - self.g_bl - At2(W_t, 0, j)]
              [] k = 2 -> [r |-> 0, c |-> n * (0 + 1) + j, x |-> self.g_bl]
              [] k = 3 * m ->
                   [r |-> m - 1, c |-> n * (m - 1 - 1) + j, x |-> self.g_bl]
              [] k = 3 * m + 1 ->
                   [r |-> m - 1, c |-> n * (m - 1) + j,
                    x |-> (-At1(self.g_s_bl_out, j)) - At2(W_t, m - 1, j)
                          - self.g_bl]
              [] (k - 3) % 3 = 0 ->
                   [r |-> 1 + ((k - 3) \div 3),
                    c |-> n * ((1 + ((k - 3) \div 3)) - 1) + j,
                    x |-> self.g_bl]
              [] (k - 3) % 3 = 1 ->
                   [r |-> 1 + ((k - 3) \div 3),
                    c |-> n * (1 + ((k - 3) \div 3)) + j,
                    x |-> (-self.g_bl) - At2(W_t, 1 + ((k - 3) \div 3), j)
                          - self.g_bl]
              [] OTHER ->
                   [r |-> 1 + ((k - 3) \div 3), c |-> j, x |-> self.g_bl]]

\* d[r, c] after the assignments ws: the last one made to it, 0 if none
LastWrite(ws, r, c) ==
    LET hits == {k \in DOMAIN ws : ws[k].r = r /\ ws[k].c = c}
    IN  IF hits = {} THEN 0
        ELSE ws[CHOOSE k \in hits : \A k2 \in hits : k2 <= k].x

make_D_err(self, W_t) ==
    CASE self.n = 0 -> "RuntimeError: empty list"              \* torch.cat([])
      [] Dim(W_t) # 2 -> "IndexError: too many indices"        \* W_t[i, j]
      [] Rows(W_t) < self.m \/ Cols(W_t) < self.n ->
             "IndexError: index out of range"
      [] self.m < 2 -> "IndexError: index out of range"        \* d[0, n + j]
      [] OTHER -> "none"

\* torch.cat of maked(0), .., maked(n - 1), given their assignments
make_D_cat(self, written) ==
    Matrix(self.n * self.m, self.m * self.n, LAMBDA r, c :
        LastWrite(written[r \div self.m], r % self.m, c))

make_D_blocks(self, W_t) ==
    Returned(make_D_err(self, W_t),
             make_D_cat(self, [j \in 0..(self.n - 1) |-> maked_writes(self, W_t, j)]))

make_D(self, W) == make_D_blocks(self, t(W))

make_E_err(self, v_applied) ==
    CASE self.n = 0 -> "IndexError: index out of range"        \* self.v_bl_in[0]
      [] self.n = 1 -> "RuntimeError: negative dimension"      \* torch.zeros(n - 2)
      [] self.m > self.n -> "IndexError: index out of range"   \* self.v_bl_in[n]
      [] v_applied.shape[1] < self.m ->
             "IndexError: index out of range"                  \* v_applied[i]
      [] OTHER -> "none"

make_E(self, v_applied) ==
    LET m == self.m
        n == self.n
        E_W(i, a) == IF a = 0 THEN At1(v_applied, i) * At1(self.g_s_wl_in, i)
                     ELSE IF a = n - 1
                     THEN At1(self.v_wl_out, i) * At1(self.g_s_wl_out, i)
                     ELSE 0
        E_B(i, a) == IF a = 0
                     THEN (-At1(self.v_bl_in, i)) * At1(self.g_s_bl_in, i)
                     ELSE IF a = n - 1
                     THEN (-At1(self.v_bl_in, i)) * At1(self.g_s_bl_out, i)
                     ELSE 0
    IN  Returned(make_E_err(self, v_applied),
                 Matrix(2 * m * n, 1, LAMBDA r, c :
                    IF r < m * n THEN E_W(r \div n, r % n)
                    ELSE E_B((r - m * n) \div n, (r - m * n) % n)))

\* the locals of solve_v when it is left, and how it is left
SolveFrame(err, at, A, B, C, cvalue, D, E) ==
    [err |-> err, at |-> at,
     locals |-> [A |-> A, B |-> B, C |-> C, cvalue |-> cvalue, D |-> D, E |-> E]]

\* lines 118-126 of solve_v, given what the five make_ calls hand back.
\* make_C returns None on every path, so line 123 raises and lines 124-126
\* (torch.inverse, the write of cache["M_inv"], the product) are never executed.
solve_v_lines(A, B, C, D, E) ==
    CASE A.err # "none" ->
           SolveFrame(A.err, "make_A", Unbound, Unbound, Unbound, Unbound,
                      Unbound, Unbound)
      [] B.err # "none" ->
           SolveFrame(B.err, "make_B", A.val, Unbound, Unbound, Unbound,
                      Unbound, Unbound)
      [] C.err # "none" ->
           SolveFrame(C.err, "make_C", A.val, B.val, Unbound, Unbound,
                      Unbound, Unbound)
      [] D.err # "none" ->
           SolveFrame(D.err, "make_D", A.val, B.val, C.val, C.cvalue,
                      Unbound, Unbound)
      [] E.err # "none" ->
           SolveFrame(E.err, "make_E", A.val, B.val, C.val, C.cvalue,
                      D.val, Unbound)
      [] Rows(A.val) # Rows(B.val) ->                \* torch.cat((A, B), 1)
           SolveFrame("RuntimeError: size mismatch", "solve_v",
                      A.val, B.val, C.val, C.cvalue, D.val, E.val)
      [] OTHER ->                         \* torch.cat((C, D), 1), C is None
           SolveFrame("TypeError: NoneType", "solve_v",
                      A.val, B.val, C.val, C.cvalue, D.val, E.val)

solve_v(self, W, v_applied) ==
    solve_v_lines(make_A(self, W), make_B(self, W), make_C(self, W),
                  make_D(self, W), make_E(self, v_applied))

\* -------------------------------------------------------------- refinement
\* a float that is a number, an infinity or not-a-number
Num(x) == [k |-> "num", v |-> x]

NaN == [k |-> "nan", v |-> 0]

Inf(sign) == [k |-> "inf", v |-> sign]

\* a / b of two float tensors' elements.  The quotient of a current by the
\* voltage it was inferred at is exact (inference(dev, v) is a multiple of v).
FDiv(a, b) ==
    IF b # 0 THEN Num(a \div b)
    ELSE IF a = 0 THEN NaN
    ELSE Inf(IF a > 0 THEN 1 ELSE -1)

\* lines 98-102 of lineres_memristive_vmm: the conductance matrix of the next
\* round, from the 2mn node voltages of the last solve; its elements are floats
refine_W(self, V_crossbar) ==
    LET m == self.m
        n == self.n
        view(h, a, b) == V_crossbar.data[h * m * n + a * n + b + 1]  \* 2 x m x n
        V_wl(i, j) == view(0, j, i)
        V_bl(i, j) == view(1, j, i)
        V_diff(i, j) == V_bl(i, j) - V_wl(i, j)
    IN  Matrix(n, m, LAMBDA i, j :
            FDiv(inference(self.memristors[i][j], V_diff(i, j)), V_diff(i, j)))

\* ------------------------------------------------------------------ inputs
\* conductance matrices: r x c, three levels, laid out by pattern p
PatternW(r, c, p) == Matrix(r, c, LAMBDA i, j : 1 + ((p + i + 2 * j) % 3))

IdealWs == {PatternW(n, m, p) : n \in 0..MaxN, m \in 1..MaxM, p \in 1..NumPatterns}

\* the matrices handed to a direct solve_v: the declared n x m and the
\* shapes with one more row or column
WInputs(n, m) == {PatternW(n + d[1], m + d[2], p) :
                     d \in {<<0, 0>>, <<0, 1>>, <<1, 0>>}, p \in 1..NumPatterns}

\* voltage vectors of every length up to MaxM + 1
VInputs == {Vector(len, LAMBDA i : (q + i) % 2) : len \in 0..(MaxM + 1),
                                                 q \in 1..NumPatterns}

MemristorParams == [temperature |-> 300, frequency |-> 1]

CrossbarParams == {[r_wl |-> 6, r_bl |-> 3, r_in |-> 12, r_out |-> 12]}

\* ----------------------------------------------------------------- actions
Init == xbar = NoObject /\ call = NoCall

\* the caller is between two calls
Idle == call.op = ""

\* LineResistanceCrossbar(memristor_model, memristor_params, ideal_w, crossbar_params)
Construct(memristor_model, ideal_w, crossbar_params) ==
    /\ Idle
    /\ ~xbar.constructed
    /\ LET raised == /\ Rows(ideal_w) * Cols(ideal_w) > 0
                     /\ initialize_memristor(memristor_model, MemristorParams,
                                             At2(ideal_w, 0, 0)).err # "none"
       IN  /\ xbar' = IF raised THEN NoObject
                      ELSE NewCrossbar(memristor_model, MemristorParams,
                                       ideal_w, crossbar_params)
           /\ call' = [NoCall EXCEPT
                         !.op = "__init__", !.model = memristor_model,
                         !.W = ideal_w,
                         !.err = IF raised
                                 THEN "Exception: Invalid memristor model"
                                 ELSE "none"]

ideal_vmm(v) ==
    /\ Idle
    /\ xbar.constructed
    /\ LET r == matmul(xbar.ideal_w, v)
       IN  call' = [NoCall EXCEPT !.op = "ideal_vmm", !.v = v,
                                  !.err = r.err, !.out = r.val]
    /\ UNCHANGED xbar

\* the product is assigned to self.fitted_w instead of being returned
naive_linear_memristive_vmm_assign(v) ==
    /\ Idle
    /\ xbar.constructed
    /\ LET r == matmul(xbar.fitted_w, v)
       IN  /\ call' = [NoCall EXCEPT !.op = "naive_linear_memristive_vmm",
                                     !.v = v, !.err = r.err]
           /\ xbar' = IF r.err = "none" THEN [xbar EXCEPT !.fitted_w = r.val]
                      ELSE xbar

naive_linear_memristive_vmm(v) ==
    /\ Idle
    /\ xbar.constructed
    /\ LET r == matmul(xbar.fitted_w, v)
       IN  call' = [NoCall EXCEPT !.op = "naive_linear_memristive_vmm", !.v = v,
                                  !.err = r.err, !.out = r.val]
    /\ UNCHANGED xbar

naive_memristive_vmm(v) ==
    /\ Idle
    /\ xbar.constructed
    /\ LET n == Rows(xbar.ideal_w)
           raised == n > 0 /\ v.shape[1] < xbar.m
           mac_op(a1, a2) == SumTo(xbar.m, LAMBDA j : inference(a1[j], At1(a2, j)))
       IN  call' = [NoCall EXCEPT
                      !.op = "naive_memristive_vmm", !.v = v,
                      !.err = IF raised THEN "IndexError: index out of range"
                              ELSE "none",
                      !.out = IF raised THEN Unbound
                              ELSE Vector(n, LAMBDA i : mac_op(xbar.memristors[i], v))]
    /\ UNCHANGED xbar

\* the record of a call that went through solve_v
SolveCall(op, v_applied, iter, W, V) ==
    [NoCall EXCEPT !.op = op, !.v = v_applied, !.iter = iter, !.W = W,
                   !.err = V.err, !.at = V.at,
                   !.A = V.locals.A, !.B = V.locals.B, !.C = V.locals.C,
                   !.D = V.locals.D, !.E = V.locals.E,
                   !.cvalue = V.locals.cvalue, !.solves = 1]

\* lineres_memristive_vmm.  solve_v raises in the call of line 96, so the
\* rounds of lines 97-103 and the sum of lines 104-107 are never executed.
lineres_memristive_vmm(v_applied, iter) ==
    /\ Idle
    /\ xbar.constructed
    /\ call' = SolveCall("lineres_memristive_vmm", v_applied, iter, xbar.fitted_w,
                         solve_v(xbar, xbar.fitted_w, v_applied))
    /\ UNCHANGED xbar

\* a direct call of solve_v(W, v_applied)
SolveV(W, v_applied) ==
    /\ Idle
    /\ xbar.constructed
    /\ call' = SolveCall("solve_v", v_applied, 0, W, solve_v(xbar, W, v_applied))
    /\ UNCHANGED xbar

\* the caller takes the result or the exception of the call; the program is
\* single-threaded, so the next call starts after the last one has ended
Return ==
    /\ call.op # ""
    /\ call' = NoCall
    /\ UNCHANGED xbar

Next ==
    \/ \E model \in Models, ideal_w \in IdealWs, cp \in CrossbarParams :
          Construct(model, ideal_w, cp)
    \/ \E v \in VInputs : ideal_vmm(v)
    \/ \E v \in VInputs : naive_linear_memristive_vmm(v)
    \/ \E v \in VInputs : naive_memristive_vmm(v)
    \/ \E v \in VInputs, iter \in 0..MaxIter : lineres_memristive_vmm(v, iter)
    \/ \E W \in WInputs(xbar.n, xbar.m), v \in VInputs : SolveV(W, v)
    \/ Return

Spec == Init /\ [][Next]_vars

\* --------------------------------------------- the refinement step alone
\* node voltages of a solve: 2mn of them
VCrossbars(n, m) ==
    {Matrix(2 * m * n, 1, LAMBDA r, c : ((q + r) \div d) % 2) :
        q \in 0..NumPatterns, d \in 1..(NumPatterns + 1)}

\* a crossbar of at least one cell, inside lineres_memristive_vmm at line 97:
\* W is the matrix of the last solve and V_crossbar its node voltages
InitRefine ==
    \E model \in Supported, ideal_w \in IdealWs, cp \in CrossbarParams :
        /\ Rows(ideal_w) >= 1
        /\ xbar = NewCrossbar(model, MemristorParams, ideal_w, cp)
        /\ \E V \in VCrossbars(Rows(ideal_w), Cols(ideal_w)) :
              call = [NoCall EXCEPT
                        !.op = "lineres_memristive_vmm:97",
                        !.W = Matrix(xbar.n, xbar.m, LAMBDA i, j :
                                        xbar.memristors[i][j].g_linfit),
                        !.V_crossbar = V, !.solves = 1]

\* lines 98-102: W is overwritten
RefineRound ==
    /\ call.op = "lineres_memristive_vmm:97"
    /\ call' = [call EXCEPT !.op = "lineres_memristive_vmm:103",
                            !.W_next = refine_W(xbar, call.V_crossbar),
                            !.overwrites = call.overwrites + 1]
    /\ UNCHANGED xbar

NextRefine == RefineRound

SpecRefine == InitRefine /\ [][NextRefine]_vars

\* ------------------------------------------------------------------ claims
SolveOps == {"lineres_memristive_vmm", "solve_v"}

Abs(x) == IF x < 0 THEN -x ELSE x

\* the exceptions by which torch reports a shape, a length or an index that
\* does not fit
ShapeMismatch == {"RuntimeError: size mismatch", "RuntimeError: negative dimension",
                  "RuntimeError: empty list", "IndexError: index out of range",
                  "IndexError: too many indices"}

\* the call is on a crossbar of at least one cell, with a voltage vector
\* of length m
ValidGeometry == xbar.n >= 1 /\ xbar.m >= 1 /\ call.v.shape = <<xbar.m>>

\* C1: on a crossbar of valid geometry and for every iterations value, the
\* full line-resistance-aware multiply completes without raising and returns
\* a vector of length n.
C1_FullMultiplyReturns ==
    (call.op = "lineres_memristive_vmm" /\ ValidGeometry)
        => /\ call.err = "none"
           /\ call.out.kind = "Tensor"
           /\ call.out.shape = <<xbar.n>>

\* C2: the full multiply with iterations = k performs exactly k + 1 solves
\* and k overwrites of W.
C2_RoundsCount ==
    (call.op = "lineres_memristive_vmm" /\ ValidGeometry)
        => /\ call.solves = call.iter + 1
           /\ call.overwrites = call.iter

\* C3: a conductance matrix that is not n x m or a voltage vector that is
\* not of length m makes the solve fail with a shape mismatch, before any
\* inversion and before the solve cache is written.
C3_ShapeMismatch ==
    (/\ call.op \in SolveOps
     /\ xbar.n >= 1 /\ xbar.m >= 1
     /\ (call.W.shape # <<xbar.n, xbar.m>> \/ call.v.shape # <<xbar.m>>))
        => /\ call.err \in ShapeMismatch
           /\ call.inversions = 0
           /\ xbar.cache.M_inv = Unbound

\* C4: constructing a crossbar with an unsupported device model fails with
\* the invalid-model exception, for every ideal conductance matrix, and no
\* crossbar object with an unsupported model exists.
C4_InvalidDeviceModel ==
    /\ (call.op = "__init__" /\ call.model \notin Supported)
          => call.err = "Exception: Invalid memristor model"
    /\ xbar.constructed => xbar.memristor_model \in Supported

\* the voltage drop V_bl[i, j] - V_wl[i, j] of the node voltages V
DeltaV(V, i, j) ==
    V.data[xbar.m * xbar.n + j * xbar.n + i + 1] - V.data[j * xbar.n + i + 1]

C6_StructuralTranspose ==
    (call.op \in SolveOps /\ call.C.kind # "unbound")
        => /\ call.C.kind = "Tensor"
           /\ call.C.shape = <<xbar.n * xbar.m, xbar.n * xbar.m>>
           /\ \A r, c \in 0..(xbar.n * xbar.m - 1) :
                 (At2(call.C, r, c) # 0) <=> (At2(call.B, c, r) # 0)

\* C7: in every solve the four blocks A, B, C, D are (nm) x (nm) each, so
\* that M is (2nm) x (2nm), and E has length 2nm.
C7_Sizes ==
    (call.op \in SolveOps /\ call.at = "solve_v")
        => /\ \A X \in {call.A, call.B, call.C, call.D} :
                 /\ X.kind = "Tensor"
                 /\ X.shape = <<xbar.n * xbar.m, xbar.n * xbar.m>>
           /\ call.E.kind = "Tensor"
           /\ call.E.shape[1] = 2 * xbar.n * xbar.m

\* C8: a multiply, whether it returns or raises, leaves the device array,
\* the ideal and fitted conductance matrices, the geometry, the line and
\* terminal conductances and the bias voltages as they were at construction;
\* only the full line-resistance-aware multiply may change the solve cache.
C8_Frame ==
    [][xbar.constructed =>
         /\ [xbar' EXCEPT !.cache = xbar.cache] = xbar
         /\ xbar'.cache # xbar.cache => call'.op = "lineres_memristive_vmm"]_vars

C8_Witness ==
    /\ xbar.constructed
    /\ xbar.n >= 2
    /\ call.op = "lineres_memristive_vmm"
    /\ call.err = "TypeError: NoneType"

\* C9: in block D, the equation of node i of bit line j has non-zero
\* coefficients at exactly its own node (2 g_bl + W[j, i]) and its two
\* neighbours on the bit line (g_bl each) when 0 < i < m - 1, and at its own
\* node (g_bl + terminal conductance + W[j, i]) and its single neighbour
\* (g_bl) when i = 0 or i = m - 1.
C9_BitLineLadder ==
    (call.op \in SolveOps /\ call.D.kind = "Tensor")
        => \A j \in 0..(xbar.n - 1), i \in 0..(xbar.m - 1) :
             LET n == xbar.n
                 m == xbar.m
                 d(c) == At2(call.D, j * m + i, c)
                 nonzero == {c \in 0..(n * m - 1) : d(c) # 0}
                 own == n * i + j
                 prev == n * (i - 1) + j
                 next == n * (i + 1) + j
             IN  CASE i = 0 ->
                        /\ nonzero = {own, next}
                        /\ Abs(d(own)) = xbar.g_bl + At1(xbar.g_s_bl_in, j)
                                           + At2(call.W, j, i)
                        /\ Abs(d(next)) = xbar.g_bl
                   [] i = m - 1 ->
                        /\ nonzero = {prev, own}
                        /\ Abs(d(own)) = xbar.g_bl + At1(xbar.g_s_bl_out, j)
                                           + At2(call.W, j, i)
                        /\ Abs(d(prev)) = xbar.g_bl
                   [] OTHER ->
                        /\ nonzero = {prev, own, next}
                        /\ Abs(d(own)) = 2 * xbar.g_bl + At2(call.W, j, i)
                        /\ Abs(d(prev)) = xbar.g_bl
                        /\ Abs(d(next)) = xbar.g_bl

\* C10: for every geometry with n >= 1 and m >= 1, assembling A, D and E
\* never requests a block of negative length and never reads or writes an
\* index outside its vector or matrix.
C10_NoOutOfRange ==
    (/\ call.op \in SolveOps
     /\ ValidGeometry
     /\ call.W.shape = <<xbar.n, xbar.m>>)
        => ~ /\ call.at \in {"make_A", "make_D", "make_E"}
             /\ call.err \in {"RuntimeError: negative dimension",
                               "IndexError: index out of range"}
====
